---- MODULE Spec2Model ----
(***************************************************************************)
(* GlslLivecoder (src/src/app.ts): the live-reload orchestration object.   *)
(* Every handler of the class is one action.  A handler's synchronous code *)
(* is a function from the object's state to its next state; the promise    *)
(* continuations it queues run right after it (JavaScript drains the       *)
(* microtask queue before the next event), and the continuations that wait *)
(* for real I/O (validator, loadFile, player.onChangeSound) are actions of *)
(* their own.                                                              *)
(***************************************************************************)
EXTENDS Integers, Sequences, FiniteSets, TLC

VARIABLES
    isPlaying,              \* this.state.isPlaying
    player,                 \* this.player: the live backend
    lastShader,             \* this.lastShader
    lastSoundShader,        \* this.lastSoundShader
    osc,                    \* this.osc
    glslangValidatorPath,   \* this.glslangValidatorPath
    activeEditorDisposer,   \* this.state.activeEditorDisposer
    editorDisposer,         \* this.state.editorDisposer
    editor,                 \* this.state.editor
    activeEditor,           \* atom.workspace.getActiveTextEditor()
    subs,                   \* editor subscriptions created and not yet disposed
    oscLive,                \* OscLoader instances constructed and not yet destroyed
    builds,                 \* loadShaderOfEditor promise chains still pending
    soundReloads,           \* player.onChangeSound promises still pending
    last,                   \* the handler that ran last and how it ended
    calls                   \* the calls that handler made on its collaborators, in order

vars == <<isPlaying, player, lastShader, lastSoundShader, osc, glslangValidatorPath,
          activeEditorDisposer, editorDisposer, editor, activeEditor, subs, oscLive,
          builds, soundReloads, last, calls>>

(***************************************************************************)
(* Bounds of the model.                                                    *)
(***************************************************************************)
MaxBuilds == 2          \* promise chains pending at once
MaxBackends == 2        \* backends constructed after the first one
MaxSoundReloads == 1    \* player.onChangeSound promises pending at once

(***************************************************************************)
(* JavaScript values.                                                      *)
(***************************************************************************)
Undef == "<undefined>"
JsNull == "<null>"

\* the values of added.osc: undefined, null or a number
OscUndefined == [t |-> "undefined", n |-> 0]
OscNull == [t |-> "null", n |-> 0]
OscPort(n) == [t |-> "number", n |-> n]

\* if (port): null, undefined, 0 are falsy
PortTruthy(port) == port.t = "number" /\ port.n # 0

\* parseInt(port.toString(), 10) of an integer port
ParseInt(port) == port.n

\* if (added.server), if (rcPass.vs), if (added.glslangValidatorPath): a string
\* or undefined/null; the empty string is falsy
StrTruthy(v) == v # Undef /\ v # JsNull /\ v # ""

(***************************************************************************)
(* Editors of the workspace.  An editor is known by its name; its path is  *)
(* fixed, its text is whatever the user has typed when it is read.         *)
(***************************************************************************)
NoPath == [dir |-> Undef, base |-> Undef, ext |-> Undef]

EditorPath(e) ==
    CASE e = "frag" -> [dir |-> "/proj", base |-> "shader", ext |-> ".frag"]
      [] e = "vert" -> [dir |-> "/proj", base |-> "shader", ext |-> ".vert"]
      [] e = "glsl" -> [dir |-> "/proj", base |-> "shader", ext |-> ".glsl"]
      [] e = "fs" -> [dir |-> "/proj", base |-> "shader", ext |-> ".fs"]
      [] e = "vs" -> [dir |-> "/proj", base |-> "shader", ext |-> ".vs"]
      [] e = "txt" -> [dir |-> "/proj", base |-> "notes", ext |-> ".txt"]
      [] OTHER -> NoPath       \* an untitled editor: getPath() is undefined

Postfixes == {".glsl", ".frag", ".vert", ".fs", ".vs"}

\* (filepath || '').match(/(\.(?:glsl|frag|vert|fs|vs))$/): m[1], or Undef for no match
MatchPostfix(filepath) ==
    IF filepath = NoPath THEN Undef
    ELSE IF filepath.ext \in Postfixes THEN filepath.ext ELSE Undef

VertexPostfix(postfix) == postfix = ".vert" \/ postfix = ".vs"
FragmentPostfix(postfix) == postfix = ".frag" \/ postfix = ".fs"

\* glslify(shader, {basedir}): the bundled text
Glslify(shader) ==
    CASE shader = "A" -> "A+"
      [] shader = "B" -> "B+"
      [] OTHER -> shader

\* loadFile(validatorPath, path.resolve(dirname, ref)): the text of the file
FileText(dirname, ref) ==
    CASE ref = "a.vert" -> "VS_TEXT"
      [] ref = "b.frag" -> "FS_TEXT"
      [] OTHER -> "TEXT"

(***************************************************************************)
(* Pass specifications (rc.PASSES) and assembled passes.                   *)
(***************************************************************************)
RcPass(target, vs, fs) ==
    [TARGET |-> target, FLOAT |-> Undef, WIDTH |-> Undef, HEIGHT |-> Undef,
     vs |-> vs, fs |-> fs]

\* INITIAL_SHADER and INITIAL_SOUND_SHADER of ./constants
INITIAL_SHADER ==
    <<[TARGET |-> Undef, FLOAT |-> Undef, WIDTH |-> Undef, HEIGHT |-> Undef,
       vs |-> Undef, fs |-> "INITIAL"]>>
INITIAL_SOUND_SHADER == "INITIAL_SOUND"

(***************************************************************************)
(* The object's state as one record, so that a handler's statements        *)
(* compose in program order.  calls is the log of the collaborator calls   *)
(* the running handler has made; threw says it has thrown.                 *)
(***************************************************************************)
Cur ==
    [isPlaying |-> isPlaying, player |-> player, lastShader |-> lastShader,
     lastSoundShader |-> lastSoundShader, osc |-> osc,
     glslangValidatorPath |-> glslangValidatorPath,
     activeEditorDisposer |-> activeEditorDisposer, editorDisposer |-> editorDisposer,
     editor |-> editor, subs |-> subs, oscLive |-> oscLive, builds |-> builds,
     soundReloads |-> soundReloads, calls |-> <<>>, threw |-> FALSE,
     result |-> "none"]

Call(obj, id, op, arg) == [obj |-> obj, id |-> id, op |-> op, arg |-> arg]

Log(s, c) == [s EXCEPT !.calls = Append(@, c)]

PlayerCall(s, op, arg) == Log(s, Call("player", s.player.id, op, arg))

AllEditors == {"frag", "vert", "glsl", "fs", "vs", "txt", "untitled"}

NoSubs == [active |-> 0, editor |-> [e \in AllEditors |-> 0]]

\* this.osc = null
NoOsc == [set |-> FALSE, port |-> 0, destroyed |-> FALSE]

\* new OscLoader(port): its port property is the port it was given
NewOsc(port) == [set |-> TRUE, port |-> port, destroyed |-> FALSE]

\* new Player(view, rc, isPlaying, lastShader) / new PlayerServer(url, {...})
NewPlayer(id, kind, playing, shader) ==
    [id |-> id, kind |-> kind, isPlaying |-> playing, shader |-> shader]

\* osc.destroy(): the instance stops listening; a second destroy changes nothing
OscDestroy(s) ==
    LET s1 == Log(s, Call("osc", s.osc.port, "destroy", <<>>))
    IN  IF s.osc.destroyed THEN s1
        ELSE [s1 EXCEPT !.osc.destroyed = TRUE, !.oscLive = @ - 1]

\* disposable.dispose() of the 'active editor changed' subscription
DisposeActive(s) ==
    [Log(s, Call("sub", "active", "dispose", <<>>)) EXCEPT !.subs.active = @ - 1]

\* disposable.dispose() of the 'editor content changed' subscription on editor e
DisposeEditor(s, e) ==
    [Log(s, Call("sub", e, "dispose", <<>>)) EXCEPT !.subs.editor[e] = @ - 1]

destroy(s) ==
    LET s1 == PlayerCall(s, "destroy", <<>>)
    IN  IF s1.osc.set THEN OscDestroy(s1) ELSE s1

\* swapBackend with the two statements in the other order: the new backend is
\* constructed first and stop() reaches it instead of the old one
swapBackendLate(s, added) ==
    LET s1 == Log(s, Call("config", "config", "createRc", <<>>))
        kind == IF StrTruthy(added.server) THEN "Remote" ELSE "Local"
        p == NewPlayer(s.player.id + 1, kind, s1.isPlaying, s1.lastShader)
        s2 == Log([s1 EXCEPT !.player = p],
                  Call("player", p.id, "new", <<kind, p.isPlaying, p.shader>>))
    IN  PlayerCall(s2, "stop", <<>>)

\* swapBackend that also records the stop in the session flag
swapBackendStopping(s, added) ==
    LET s1 == PlayerCall([s EXCEPT !.isPlaying = FALSE], "stop", <<>>)
        s2 == Log(s1, Call("config", "config", "createRc", <<>>))
        kind == IF StrTruthy(added.server) THEN "Remote" ELSE "Local"
        p == NewPlayer(s.player.id + 1, kind, s2.isPlaying, s2.lastShader)
    IN  Log([s2 EXCEPT !.player = p],
            Call("player", p.id, "new", <<kind, p.isPlaying, p.shader>>))

\* swapBackend that constructs the new backend with the initial shader
swapBackendUnseeded(s, added) ==
    LET s1 == PlayerCall(s, "stop", <<>>)
        s2 == Log(s1, Call("config", "config", "createRc", <<>>))
        kind == IF StrTruthy(added.server) THEN "Remote" ELSE "Local"
        p == NewPlayer(s.player.id + 1, kind, s2.isPlaying, INITIAL_SHADER)
    IN  Log([s2 EXCEPT !.player = p],
            Call("player", p.id, "new", <<kind, p.isPlaying, p.shader>>))

\* the server branch of onAnyChanges
swapBackend(s, added) ==
    LET s1 == PlayerCall(s, "stop", <<>>)
        s2 == Log(s1, Call("config", "config", "createRc", <<>>))
        kind == IF StrTruthy(added.server) THEN "Remote" ELSE "Local"
        p == NewPlayer(s.player.id + 1, kind, s2.isPlaying, s2.lastShader)
    IN  Log([s2 EXCEPT !.player = p],
            Call("player", p.id, "new", <<kind, p.isPlaying, p.shader>>))

\* swapOsc without the comparison of ports: a live instance is always replaced
swapOscAlways(s, added) ==
    LET port == added.osc
        s1 == IF s.osc.set THEN [OscDestroy(s) EXCEPT !.osc = NoOsc] ELSE s
    IN  IF PortTruthy(port) /\ ~s1.osc.set
        THEN Log([s1 EXCEPT !.osc = NewOsc(port.n),
                            !.oscLive = @ + 1],
                 Call("osc", port.n, "new", <<>>))
        ELSE s1

\* swapOsc that constructs the new instance before it destroys the old one
swapOscLate(s, added) ==
    LET port == added.osc
        replace == s.osc.set /\ (~PortTruthy(port) \/ s.osc.port # ParseInt(port))
        create == PortTruthy(port) /\ (~s.osc.set \/ replace)
        s1 == IF create
              THEN Log([s EXCEPT !.oscLive = @ + 1], Call("osc", port.n, "new", <<>>))
              ELSE s
        s2 == IF replace THEN [OscDestroy(s1) EXCEPT !.osc = NoOsc] ELSE s1
    IN  IF create
        THEN [s2 EXCEPT !.osc = NewOsc(port.n)]
        ELSE s2

\* the osc branch of onAnyChanges
swapOsc(s, added) ==
    LET port == added.osc
        s1 == IF s.osc.set /\ (~PortTruthy(port) \/ s.osc.port # ParseInt(port))
              THEN [OscDestroy(s) EXCEPT !.osc = NoOsc]
              ELSE s
    IN  IF PortTruthy(port) /\ ~s1.osc.set
        THEN Log([s1 EXCEPT !.osc = NewOsc(port.n),
                            !.oscLive = @ + 1],
                 Call("osc", port.n, "new", <<>>))
        ELSE s1

onAnyChanges(s, added) ==
    LET s1 == IF StrTruthy(added.glslangValidatorPath)
              THEN [s EXCEPT !.glslangValidatorPath = added.glslangValidatorPath]
              ELSE s
        s2 == IF added.server # Undef THEN swapBackend(s1, added) ELSE s1
    IN  IF added.osc # OscUndefined THEN swapOsc(s2, added) ELSE s2

\* player.loadShader(passes): the backend now shows passes
PlayerLoadShader(s, passes) ==
    [PlayerCall(s, "loadShader", <<passes>>) EXCEPT !.player.shader = passes]

\* an array is truthy, also when empty
ArrayTruthy(a) == Len(a) >= 0

loadLastShader(s) ==
    IF ~ArrayTruthy(s.lastShader) THEN s ELSE PlayerLoadShader(s, s.lastShader)

loadLastSoundShader(s) ==
    IF ~StrTruthy(s.lastSoundShader) THEN s
    ELSE PlayerCall(s, "loadSoundShader", <<s.lastSoundShader>>)

onChange(s, added) ==
    loadLastShader(PlayerCall(onAnyChanges(s, added), "onChange", <<>>))

\* up to the pending promise of player.onChangeSound
onChangeSound(s, added) ==
    [PlayerCall(onAnyChanges(s, added), "onChangeSound", <<>>)
        EXCEPT !.soundReloads = @ + 1]

\* onOsc that passes the address only
onOscAddressOnly(s, msg) == PlayerCall(s, "setOsc", <<msg.address, Undef>>)

onOsc(s, msg) == PlayerCall(s, "setOsc", <<msg.address, msg.args>>)

\* stopWatching that clears the content-change handle without disposing it
stopWatchingActiveOnly(s) ==
    LET s1 == [s EXCEPT !.editor = JsNull]
        s2 == IF s1.activeEditorDisposer # Undef /\ s1.activeEditorDisposer # JsNull
              THEN [DisposeActive(s1) EXCEPT !.activeEditorDisposer = JsNull]
              ELSE s1
    IN  [s2 EXCEPT !.editorDisposer = JsNull]

stopWatching(s) ==
    LET s1 == [s EXCEPT !.editor = JsNull]
        s2 == IF s1.activeEditorDisposer # Undef /\ s1.activeEditorDisposer # JsNull
              THEN [DisposeActive(s1) EXCEPT !.activeEditorDisposer = JsNull]
              ELSE s1
    IN  IF s2.editorDisposer # Undef /\ s2.editorDisposer # JsNull
        THEN [DisposeEditor(s2, s2.editorDisposer) EXCEPT !.editorDisposer = JsNull]
        ELSE s2

play(s) ==
    LET s1 == PlayerCall([s EXCEPT !.isPlaying = TRUE], "play", <<>>)
    IN  Log(s1, Call("config", "config", "play", <<>>))

stop(s) ==
    LET s1 == PlayerCall([s EXCEPT !.isPlaying = FALSE], "stop", <<>>)
    IN  stopWatching(Log(s1, Call("config", "config", "stop", <<>>)))

toggle(s) == IF s.isPlaying THEN stop(s) ELSE play(s)

stopSound(s) == PlayerCall(s, "stopSound", <<>>)

(***************************************************************************)
(* Pass assembly.  Each pass is an async function: PassInit is its code up *)
(* to the first await, PassTodo the loadFile calls it will await in turn,  *)
(* PassLoaded its code after one of them has resolved.                     *)
(***************************************************************************)
\* PassInit that puts the edited text on the fragment side whatever the suffix
PassInitFragment(rcPass, shader, postfix) ==
    LET pass == [TARGET |-> rcPass.TARGET, FLOAT |-> rcPass.FLOAT,
                 WIDTH |-> rcPass.WIDTH, HEIGHT |-> rcPass.HEIGHT,
                 vs |-> Undef, fs |-> Undef]
    IN  IF ~StrTruthy(rcPass.fs) /\ ~StrTruthy(rcPass.vs)
        THEN [pass EXCEPT !.fs = shader]
        ELSE pass

PassInit(rcPass, shader, postfix) ==
    LET pass == [TARGET |-> rcPass.TARGET, FLOAT |-> rcPass.FLOAT,
                 WIDTH |-> rcPass.WIDTH, HEIGHT |-> rcPass.HEIGHT,
                 vs |-> Undef, fs |-> Undef]
    IN  IF ~StrTruthy(rcPass.fs) /\ ~StrTruthy(rcPass.vs)
        THEN IF VertexPostfix(postfix)
             THEN [pass EXCEPT !.vs = shader]
             ELSE [pass EXCEPT !.fs = shader]
        ELSE pass

PassTodo(rcPass) ==
    (IF StrTruthy(rcPass.vs) THEN <<"vs">> ELSE <<>>)
        \o (IF StrTruthy(rcPass.fs) THEN <<"fs">> ELSE <<>>)

\* PassLoaded that fills the other side in every pass, not only in the last one
PassLoadedAnyPass(pass, side, text, isLast, shader, postfix) ==
    IF side = "vs"
    THEN IF FragmentPostfix(postfix)
         THEN [pass EXCEPT !.vs = text, !.fs = shader]
         ELSE [pass EXCEPT !.vs = text]
    ELSE IF VertexPostfix(postfix)
         THEN [pass EXCEPT !.fs = text, !.vs = shader]
         ELSE [pass EXCEPT !.fs = text]

PassLoaded(pass, side, text, isLast, shader, postfix) ==
    IF side = "vs"
    THEN IF isLast /\ FragmentPostfix(postfix)
         THEN [pass EXCEPT !.vs = text, !.fs = shader]
         ELSE [pass EXCEPT !.vs = text]
    ELSE IF isLast /\ VertexPostfix(postfix)
         THEN [pass EXCEPT !.fs = text, !.vs = shader]
         ELSE [pass EXCEPT !.fs = text]

\* createPasses without the push of the implicit pass
CoercePassesAsIs(rcPasses) == rcPasses

\* if (rcPasses.length === 0) rcPasses.push({})
CoercePasses(rcPasses) ==
    IF Len(rcPasses) = 0 THEN <<RcPass(Undef, Undef, Undef)>> ELSE rcPasses

(***************************************************************************)
(* The build pipeline, loadShaderOfEditor.  A pending promise chain is a   *)
(* record of builds; stage says what it waits for: "start" (its first      *)
(* continuation is queued), "validate", "load", or "resolved" (only the    *)
(* caller's then is queued).  result is how a chain ended.                 *)
(***************************************************************************)
Build(isSound, shader, postfix, dirname, inp, thenPlay, stage) ==
    [isSound |-> isSound, shader |-> shader, postfix |-> postfix, dirname |-> dirname,
     glslify |-> inp.glslify, PASSES |-> inp.PASSES, thenPlay |-> thenPlay,
     stage |-> stage, passes |-> <<>>, todo |-> <<>>, result |-> "none"]

RemoveAt(q, k) == [j \in 1..(Len(q) - 1) |-> IF j < k THEN q[j] ELSE q[j + 1]]

\* Resolve whose catch also resets the stored shaders
ResolveClearing(s, k, result) ==
    LET b == s.builds[k]
        s1 == [s EXCEPT !.builds = RemoveAt(@, k), !.result = result]
        s2 == IF result = "dispatched" THEN s1
              ELSE [s1 EXCEPT !.lastShader = INITIAL_SHADER,
                              !.lastSoundShader = INITIAL_SOUND_SHADER]
    IN  IF b.thenPlay THEN PlayerCall(s2, "playSound", <<>>) ELSE s2

\* the promise chain k has settled: the catch has logged a failure, and the
\* then of playSound, if any, runs
Resolve(s, k, result) ==
    LET b == s.builds[k]
        s1 == [s EXCEPT !.builds = RemoveAt(@, k), !.result = result]
    IN  IF b.thenPlay THEN PlayerCall(s1, "playSound", <<>>) ELSE s1

\* Dispatch that drops the result of a build when a newer one is in flight
DispatchNewest(s, k, passes) ==
    LET b == s.builds[k]
    IN  IF k < Len(s.builds) THEN s
        ELSE IF b.isSound
        THEN [PlayerCall(s, "loadSoundShader", <<b.shader>>)
                 EXCEPT !.lastSoundShader = b.shader]
        ELSE [PlayerLoadShader(s, passes) EXCEPT !.lastShader = passes]

\* the last then of the chain
Dispatch(s, k, passes) ==
    LET b == s.builds[k]
    IN  IF b.isSound
        THEN [PlayerCall(s, "loadSoundShader", <<b.shader>>)
                 EXCEPT !.lastSoundShader = b.shader]
        ELSE [PlayerLoadShader(s, passes) EXCEPT !.lastShader = passes]

AllLoaded(todo) == \A i \in 1..Len(todo) : todo[i] = <<>>

\* the loadFile call pass i awaits next
LogLoad(s, b, i, side, rcPasses) ==
    Log(s, Call("validator", i, "loadFile",
                <<s.glslangValidatorPath, b.dirname,
                  IF side = "vs" THEN rcPasses[i].vs ELSE rcPasses[i].fs>>))

RECURSIVE LogLoads(_, _, _, _, _)
LogLoads(s, b, todo, rcPasses, i) ==
    IF i > Len(todo) THEN s
    ELSE LogLoads(IF todo[i] = <<>> THEN s ELSE LogLoad(s, b, i, todo[i][1], rcPasses),
                  b, todo, rcPasses, i + 1)

\* createPasses up to the awaits of its passes, then (Promise.all) the dispatch
\* when no pass awaits anything
createPasses(s, k) ==
    LET b == s.builds[k]
        rcPasses == CoercePasses(b.PASSES)
        passes == [i \in 1..Len(rcPasses) |-> PassInit(rcPasses[i], b.shader, b.postfix)]
        todo == [i \in 1..Len(rcPasses) |-> PassTodo(rcPasses[i])]
        s1 == LogLoads(Log(s, Call("this", k, "createPasses", <<b.isSound>>)),
                       b, todo, rcPasses, 1)
    IN  IF AllLoaded(todo)
        THEN Resolve(Dispatch(s1, k, passes), k, "dispatched")
        ELSE [s1 EXCEPT !.builds[k].stage = "load", !.builds[k].passes = passes,
                        !.builds[k].todo = todo]

\* StartChain whose validator is given the text as the editor holds it
StartChainUnbundled(s, k) ==
    LET b == s.builds[k]
        s1 == Log(s, Call("config", "config",
                          IF b.isSound THEN "setSoundSettingsByString"
                          ELSE "setFileSettingsByString", <<>>))
        s2 == Log(s1, Call("config", "config",
                           IF b.isSound THEN "createSoundRc" ELSE "createRc", <<>>))
        s3 == IF b.glslify = "off" THEN s2
              ELSE Log(s2, Call("glslify", "glslify", "glslify", <<b.shader>>))
        shader == IF b.glslify = "ok" THEN Glslify(b.shader) ELSE b.shader
        s4 == [s3 EXCEPT !.builds[k].shader = shader]
    IN  IF b.glslify = "throw" THEN Resolve(s3, k, "glslifyError")
        ELSE IF ~b.isSound
        THEN [Log(s4, Call("validator", k, "validator",
                           <<s4.glslangValidatorPath, b.shader, b.postfix>>))
                 EXCEPT !.builds[k].stage = "validate"]
        ELSE createPasses(s4, k)

\* the first two thens of the chain: settings, snapshot, glslify; validator
StartChain(s, k) ==
    LET b == s.builds[k]
        s1 == Log(s, Call("config", "config",
                          IF b.isSound THEN "setSoundSettingsByString"
                          ELSE "setFileSettingsByString", <<>>))
        s2 == Log(s1, Call("config", "config",
                           IF b.isSound THEN "createSoundRc" ELSE "createRc", <<>>))
        s3 == IF b.glslify = "off" THEN s2
              ELSE Log(s2, Call("glslify", "glslify", "glslify", <<b.shader>>))
        shader == IF b.glslify = "ok" THEN Glslify(b.shader) ELSE b.shader
        s4 == [s3 EXCEPT !.builds[k].shader = shader]
    IN  IF b.glslify = "throw" THEN Resolve(s3, k, "glslifyError")
        ELSE IF ~b.isSound
        THEN [Log(s4, Call("validator", k, "validator",
                           <<s4.glslangValidatorPath, shader, b.postfix>>))
                 EXCEPT !.builds[k].stage = "validate"]
        ELSE createPasses(s4, k)

\* the microtask queue: the chains whose next continuation needs no I/O
Queued(s) == {k \in 1..Len(s.builds) : s.builds[k].stage \in {"start", "resolved"}}

RECURSIVE Drain(_)
Drain(s) ==
    IF Queued(s) = {} THEN s
    ELSE LET k == CHOOSE k \in Queued(s) : \A j \in Queued(s) : k <= j
         IN  Drain(IF s.builds[k].stage = "resolved"
                   THEN Resolve(s, k, s.builds[k].result)
                   ELSE StartChain(s, k))

NoInput == [text |-> "", glslify |-> "off", PASSES |-> <<>>]

\* the synchronous part of loadShaderOfEditor(editor, isSound); thenPlay says the
\* caller is playSound, which chains player.playSound() on the returned promise
loadShaderOfEditor(s, e, isSound, inp, thenPlay) ==
    LET filepath == EditorPath(e)
        postfix == MatchPostfix(filepath)
        noop(result) ==
            [s EXCEPT !.builds = Append(@,
                [Build(isSound, "", Undef, Undef, NoInput, thenPlay, "resolved")
                    EXCEPT !.result = result])]
    IN  IF e = Undef THEN noop("noEditor")
        \* path.dirname(undefined) throws a TypeError
        ELSE IF filepath = NoPath THEN [s EXCEPT !.threw = TRUE]
        ELSE IF postfix = Undef
        THEN Log(noop("badSuffix"), Call("console", "console", "error", <<>>))
        ELSE [s EXCEPT !.builds = Append(@,
                 Build(isSound, inp.text, postfix, filepath.dir, inp, thenPlay, "start"))]

(***************************************************************************)
(* The watch controller and the one-shot triggers.  ae is the workspace's  *)
(* active editor, inp what the editor and the configuration hold when the  *)
(* build reads them.                                                       *)
(***************************************************************************)
Truthy(h) == h # Undef /\ h # JsNull

watchShader(s, ae, inp) ==
    LET s1 == IF Truthy(s.editorDisposer)
              THEN [DisposeEditor(s, s.editorDisposer) EXCEPT !.editorDisposer = JsNull]
              ELSE s
        s2 == loadShaderOfEditor([s1 EXCEPT !.editor = ae], ae, FALSE, inp, FALSE)
    IN  IF s2.threw THEN s2
        ELSE IF ae # Undef
        THEN [Log(s2, Call("sub", ae, "onDidStopChanging", <<>>))
                 EXCEPT !.subs.editor[ae] = @ + 1, !.editorDisposer = ae]
        ELSE s2

\* watchActiveShader without its early return
watchActiveShaderAgain(s, ae, inp) ==
    LET s1 == watchShader(s, ae, inp)
    IN  IF s1.threw THEN s1
        ELSE [Log(s1, Call("sub", "active", "onDidChangeActiveTextEditor", <<>>))
                 EXCEPT !.subs.active = @ + 1, !.activeEditorDisposer = "disposable"]

watchActiveShader(s, ae, inp) ==
    IF Truthy(s.activeEditorDisposer) THEN s
    ELSE LET s1 == watchShader(s, ae, inp)
         IN  IF s1.threw THEN s1
             ELSE [Log(s1, Call("sub", "active", "onDidChangeActiveTextEditor", <<>>))
                      EXCEPT !.subs.active = @ + 1, !.activeEditorDisposer = "disposable"]

loadShader(s, ae, inp) == loadShaderOfEditor(s, ae, FALSE, inp, FALSE)

loadSoundShader(s, ae, inp) == loadShaderOfEditor(s, ae, TRUE, inp, FALSE)

\* loadSoundShader().then(() => this.player.playSound())
playSound(s, ae, inp) == loadShaderOfEditor(s, ae, TRUE, inp, TRUE)

(***************************************************************************)
(* The state after construction, and the actions.                          *)
(***************************************************************************)
\* a handler that was given no configuration diff
NoDiff == [glslangValidatorPath |-> Undef, server |-> Undef, osc |-> OscUndefined]

\* the handler op, called with arg, has run to s0: its queued continuations run,
\* and the result is the next state
Commit(s0, op, arg) ==
    \E s \in {Drain(s0)} :
        /\ Len(s.builds) <= MaxBuilds
        /\ s.soundReloads <= MaxSoundReloads
        /\ s.player.id <= MaxBackends
        /\ isPlaying' = s.isPlaying
        /\ player' = s.player
        /\ lastShader' = s.lastShader
        /\ lastSoundShader' = s.lastSoundShader
        /\ osc' = s.osc
        /\ glslangValidatorPath' = s.glslangValidatorPath
        /\ activeEditorDisposer' = s.activeEditorDisposer
        /\ editorDisposer' = s.editorDisposer
        /\ editor' = s.editor
        /\ subs' = s.subs
        /\ oscLive' = s.oscLive
        /\ builds' = s.builds
        /\ soundReloads' = s.soundReloads
        /\ last' = [op |-> op, arg |-> arg, threw |-> s.threw, result |-> s.result]
        /\ calls' = s.calls

InitWith(editors) ==
    /\ isPlaying = FALSE
    /\ player = NewPlayer(0, "Local", FALSE, INITIAL_SHADER)
    /\ lastShader = INITIAL_SHADER
    /\ lastSoundShader = INITIAL_SOUND_SHADER
    /\ osc = NoOsc
    /\ glslangValidatorPath = "glslangValidator"
    /\ activeEditorDisposer = Undef
    /\ editorDisposer = Undef
    /\ editor = Undef
    /\ activeEditor \in editors
    /\ subs = NoSubs
    /\ oscLive = 0
    /\ builds = <<>>
    /\ soundReloads = 0
    /\ last = [op |-> "constructor", arg |-> NoDiff, threw |-> FALSE, result |-> "none"]
    /\ calls = <<Call("player", 0, "new", <<"Local", FALSE, INITIAL_SHADER>>)>>

Destroy == Commit(destroy(Cur), "destroy", NoDiff) /\ UNCHANGED activeEditor

OnChange(added) == Commit(onChange(Cur, added), "onChange", added) /\ UNCHANGED activeEditor

OnChangeSound(added) ==
    Commit(onChangeSound(Cur, added), "onChangeSound", added) /\ UNCHANGED activeEditor

\* the promise of player.onChangeSound settles
OnChangeSoundSettled(ok) ==
    /\ soundReloads > 0
    /\ LET s == [Cur EXCEPT !.soundReloads = @ - 1]
       IN  Commit(IF ok THEN loadLastSoundShader(s) ELSE s, "onChangeSoundSettled", NoDiff)
    /\ UNCHANGED activeEditor

\* a live OscLoader emits 'message'
OnOsc(msg) ==
    /\ oscLive > 0
    /\ Commit(onOsc(Cur, msg), "onOsc", msg)
    /\ UNCHANGED activeEditor

\* a live OscLoader emits 'reload'
OscReload ==
    /\ oscLive > 0
    /\ Commit(loadLastShader(Cur), "oscReload", NoDiff)
    /\ UNCHANGED activeEditor

Toggle == Commit(toggle(Cur), "toggle", NoDiff) /\ UNCHANGED activeEditor

Play == Commit(play(Cur), "play", NoDiff) /\ UNCHANGED activeEditor

Stop == Commit(stop(Cur), "stop", NoDiff) /\ UNCHANGED activeEditor

StopWatching == Commit(stopWatching(Cur), "stopWatching", NoDiff) /\ UNCHANGED activeEditor

StopSound == Commit(stopSound(Cur), "stopSound", NoDiff) /\ UNCHANGED activeEditor

WatchActiveShader(inp) ==
    Commit(watchActiveShader(Cur, activeEditor, inp), "watchActiveShader", NoDiff)
        /\ UNCHANGED activeEditor

WatchShader(inp) ==
    Commit(watchShader(Cur, activeEditor, inp), "watchShader", NoDiff) /\ UNCHANGED activeEditor

LoadShader(inp) ==
    Commit(loadShader(Cur, activeEditor, inp), "loadShader", NoDiff) /\ UNCHANGED activeEditor

LoadSoundShader(inp) ==
    Commit(loadSoundShader(Cur, activeEditor, inp), "loadSoundShader", NoDiff)
        /\ UNCHANGED activeEditor

PlaySound(inp) ==
    Commit(playSound(Cur, activeEditor, inp), "playSound", NoDiff) /\ UNCHANGED activeEditor

\* the user activates editor e (or closes the last one): every live 'active
\* editor changed' subscription calls watchShader
ActiveEditorChanged(e, inp) ==
    /\ e # activeEditor
    /\ activeEditor' = e
    /\ Commit(IF subs.active > 0 THEN watchShader(Cur, e, inp) ELSE Cur,
              "activeEditorChanged", NoDiff)

\* the user stops typing in editor e: every live 'editor content changed'
\* subscription on e calls loadShaderOfEditor(e)
EditorStoppedChanging(e, inp) ==
    /\ subs.editor[e] > 0
    /\ Commit(loadShaderOfEditor(Cur, e, FALSE, inp, FALSE), "editorStoppedChanging", NoDiff)
    /\ UNCHANGED activeEditor

\* validator() of chain k settles
ValidatorSettled(k, ok) ==
    /\ k \in 1..Len(builds)
    /\ builds[k].stage = "validate"
    /\ Commit(IF ok THEN createPasses(Cur, k)
              ELSE Resolve(Log(Cur, Call("console", "console", "error", <<>>)),
                           k, "invalid"),
              "validatorSettled", NoDiff)
    /\ UNCHANGED activeEditor

\* the loadFile() that pass i of chain k awaits settles
loadFileSettled(s, k, i, ok) ==
    LET b == s.builds[k]
        rcPasses == CoercePasses(b.PASSES)
        side == Head(b.todo[i])
        text == FileText(b.dirname, IF side = "vs" THEN rcPasses[i].vs ELSE rcPasses[i].fs)
        pass == PassLoaded(b.passes[i], side, text, i = Len(rcPasses), b.shader, b.postfix)
        passes == [b.passes EXCEPT ![i] = pass]
        todo == [b.todo EXCEPT ![i] = Tail(@)]
        s1 == [s EXCEPT !.builds[k].passes = passes, !.builds[k].todo = todo]
        s2 == IF todo[i] = <<>> THEN s1 ELSE LogLoad(s1, b, i, Head(todo[i]), rcPasses)
    IN  IF ~ok
        THEN Resolve(Log(s, Call("console", "console", "error", <<>>)), k, "loadError")
        ELSE IF AllLoaded(todo)
        THEN Resolve(Dispatch(s2, k, passes), k, "dispatched")
        ELSE s2

LoadFileSettled(k, i, ok) ==
    /\ k \in 1..Len(builds)
    /\ builds[k].stage = "load"
    /\ i \in 1..Len(builds[k].todo)
    /\ builds[k].todo[i] # <<>>
    /\ Commit(loadFileSettled(Cur, k, i, ok), "loadFileSettled", NoDiff)
    /\ UNCHANGED activeEditor

(***************************************************************************)
(* Specifications.  Spec is the build pipeline: the one-shot triggers over *)
(* every kind of editor, with every outcome of preprocessing, validation   *)
(* and file loading.  SpecSession is the session with no editor open: play *)
(* and stop, every configuration change, the control source.  SpecWatch is *)
(* the watch controller over every kind of editor.  SpecAll has every      *)
(* handler, over one shader file and one configuration change.             *)
(***************************************************************************)
Bool == {TRUE, FALSE}

Editors == {Undef, "frag", "txt", "untitled"}

FilePass == <<RcPass("buf", "a.vert", Undef)>>

Inputs == [text : {"A"}, glslify : {"off", "ok", "throw"}, PASSES : {<<>>, FilePass}]

PlainInputs == [text : {"A"}, glslify : {"off"}, PASSES : {<<>>}]

Diffs ==
    [glslangValidatorPath : {Undef, "/opt/validator"},
     server : {Undef, JsNull, "ws://host"},
     osc : {OscUndefined, OscNull, OscPort(0), OscPort(7000), OscPort(7001)}]

OscDiffs ==
    [glslangValidatorPath : {Undef}, server : {Undef}, osc : {OscNull, OscPort(7000)}]

OneDiff ==
    {[glslangValidatorPath |-> Undef, server |-> "ws://host", osc |-> OscPort(7000)]}

OscMessages == [address : {"/a", "/b"}, args : {"0.5"}]

OneMessage == {[address |-> "/a", args |-> "0.5"]}

Init == InitWith(Editors)

Next ==
    \/ \E inp \in Inputs : LoadShader(inp)
    \/ \E inp \in Inputs : LoadSoundShader(inp)
    \/ \E k \in 1..MaxBuilds, ok \in Bool : ValidatorSettled(k, ok)
    \/ \E k \in 1..MaxBuilds, i \in 1..Len(FilePass), ok \in Bool : LoadFileSettled(k, i, ok)

Spec == Init /\ [][Next]_vars

InitSession == InitWith({Undef})

NextSession ==
    \/ Destroy
    \/ \E added \in Diffs : OnChange(added)
    \/ \E added \in Diffs : OnChangeSound(added)
    \/ \E ok \in Bool : OnChangeSoundSettled(ok)
    \/ \E msg \in OscMessages : OnOsc(msg)
    \/ OscReload
    \/ Toggle
    \/ Play
    \/ Stop
    \/ StopSound

SpecSession == InitSession /\ [][NextSession]_vars

NextWatch ==
    \/ Destroy
    \/ \E added \in OscDiffs : OnChange(added)
    \/ Play
    \/ Stop
    \/ StopWatching
    \/ \E inp \in PlainInputs : WatchActiveShader(inp)
    \/ \E inp \in PlainInputs : WatchShader(inp)
    \/ \E e \in Editors, inp \in PlainInputs : ActiveEditorChanged(e, inp)
    \/ \E e \in Editors \ {Undef}, inp \in PlainInputs : EditorStoppedChanging(e, inp)
    \/ \E k \in 1..MaxBuilds, ok \in Bool : ValidatorSettled(k, ok)

SpecWatch == Init /\ [][NextWatch]_vars

NextAll ==
    \/ Destroy
    \/ \E added \in OneDiff : OnChange(added)
    \/ \E added \in OneDiff : OnChangeSound(added)
    \/ \E ok \in Bool : OnChangeSoundSettled(ok)
    \/ \E msg \in OneMessage : OnOsc(msg)
    \/ OscReload
    \/ Toggle
    \/ Play
    \/ Stop
    \/ StopWatching
    \/ StopSound
    \/ \E inp \in PlainInputs : WatchActiveShader(inp)
    \/ \E inp \in PlainInputs : WatchShader(inp)
    \/ \E inp \in PlainInputs : LoadShader(inp)
    \/ \E inp \in PlainInputs : LoadSoundShader(inp)
    \/ \E inp \in PlainInputs : PlaySound(inp)
    \/ \E e \in {Undef, "frag"}, inp \in PlainInputs : ActiveEditorChanged(e, inp)
    \/ \E inp \in PlainInputs : EditorStoppedChanging("frag", inp)
    \/ \E k \in 1..MaxBuilds, ok \in Bool : ValidatorSettled(k, ok)

SpecAll == InitSession /\ [][NextAll]_vars

(***************************************************************************)
(* SpecPasses is the Pass Assembler: one visual build at a time, over      *)
(* every recognized suffix and every list of at most two pass              *)
(* specifications, each setting neither side, vs, fs, or both; the loads   *)
(* of the passes settle in every order.                                    *)
(***************************************************************************)
PassEditors == {"frag", "vert", "glsl", "fs", "vs"}

FirstPasses ==
    {[RcPass("t1", vs, fs) EXCEPT !.FLOAT = "true", !.WIDTH = "512", !.HEIGHT = "256"] :
        vs \in {Undef, "a.vert"}, fs \in {Undef, "b.frag"}}

LastPasses == {RcPass("t2", vs, fs) : vs \in {Undef, "a.vert"}, fs \in {Undef, "b.frag"}}

PassLists ==
    {<<>>} \cup {<<p>> : p \in LastPasses}
           \cup {<<p, q>> : p \in FirstPasses, q \in LastPasses}

PassIndexes == UNION {DOMAIN rcPasses : rcPasses \in PassLists}

PassInputs == [text : {"A"}, glslify : {"off"}, PASSES : PassLists]

InitPasses == InitWith(PassEditors)

NextPasses ==
    \/ \E inp \in PassInputs : builds = <<>> /\ LoadShader(inp)
    \/ \E k \in 1..MaxBuilds, ok \in Bool : ValidatorSettled(k, ok)
    \/ \E k \in 1..MaxBuilds, i \in PassIndexes, ok \in Bool : LoadFileSettled(k, i, ok)

SpecPasses == InitPasses /\ [][NextPasses]_vars

(***************************************************************************)
(* SpecRace is builds against backend swaps: builds of shader.frag are     *)
(* triggered on the first backend only, so that a build which completes on *)
(* a later backend was started before the swap; configuration changes,     *)
(* sound reloads, and the messages and reload signals of the control       *)
(* source, come at any time.                                               *)
(***************************************************************************)
ServerDiffs ==
    [glslangValidatorPath : {Undef},
     server : {Undef, JsNull, "ws://host"},
     osc : {OscUndefined, OscPort(7000)}]

RaceInputs == [text : {"A"}, glslify : {"off", "ok"}, PASSES : {FilePass}]

InitRace == InitWith({"frag"})

NextRace ==
    \/ \E inp \in RaceInputs : player.id = 0 /\ LoadShader(inp)
    \/ \E added \in ServerDiffs : OnChange(added)
    \/ \E added \in ServerDiffs : OnChangeSound(added)
    \/ \E ok \in Bool : OnChangeSoundSettled(ok)
    \/ \E msg \in OscMessages : OnOsc(msg)
    \/ OscReload
    \/ \E k \in 1..MaxBuilds, ok \in Bool : ValidatorSettled(k, ok)
    \/ \E k \in 1..MaxBuilds, i \in 1..Len(FilePass), ok \in Bool : LoadFileSettled(k, i, ok)

SpecRace == InitRace /\ [][NextRace]_vars

(***************************************************************************)
(* SpecSound is playSound() over every kind of editor, with every outcome  *)
(* of preprocessing and file loading, against backend swaps.               *)
(***************************************************************************)
NextSound ==
    \/ \E inp \in Inputs : PlaySound(inp)
    \/ StopSound
    \/ \E added \in ServerDiffs : OnChange(added)
    \/ \E k \in 1..MaxBuilds, i \in 1..Len(FilePass), ok \in Bool : LoadFileSettled(k, i, ok)

SpecSound == Init /\ [][NextSound]_vars

(***************************************************************************)
(* Properties.                                                             *)
(***************************************************************************)
PlayerCalls(cs, ops) == SelectSeq(cs, LAMBDA c : c.obj = "player" /\ c.op \in ops)

OscCalls(cs) == SelectSeq(cs, LAMBDA c : c.obj = "osc")

DisposeCalls(cs) == SelectSeq(cs, LAMBDA c : c.obj = "sub" /\ c.op = "dispose")

ConfigChanged(l) == l.op \in {"onChange", "onChangeSound"}

OscIsLive == osc.set /\ ~osc.destroyed

RECURSIVE SumOver(_, _)
SumOver(f, S) ==
    IF S = {} THEN 0
    ELSE LET x == CHOOSE x \in S : TRUE IN f[x] + SumOver(f, S \ {x})

EditorSubsLive(sb) == SumOver(sb.editor, AllEditors)

\* C1: a step of a build that is not the dispatch of a build whose every step
\* succeeded writes neither lastShader nor lastSoundShader; so a build that fails
\* (unrecognized suffix, glslify error, validator rejection, loadFile error) or
\* throws has written neither when it settles.
C1_FailedBuildWritesNothing ==
    [][last'.result # "dispatched"
          => lastShader' = lastShader /\ lastSoundShader' = lastSoundShader]_vars

\* a pass-file load has failed after an earlier build had replaced the initial shader
C1_Witness ==
    /\ last.result \in {"badSuffix", "glslifyError", "invalid", "loadError"}
    /\ lastShader # INITIAL_SHADER
    /\ lastSoundShader # INITIAL_SOUND_SHADER

\* C2: loadShader, loadSoundShader and watchShader never throw, whatever the active
\* editor is (the promise they build ends in a catch, so it never rejects).
C2_NeverThrows ==
    last.op \in {"loadShader", "loadSoundShader", "watchShader"} => ~last.threw

C4_OscIdempotent ==
    [][/\ oscLive' <= 1
       /\ (ConfigChanged(last') /\ OscIsLive /\ last'.arg.osc = OscPort(osc.port))
             => (OscCalls(calls') = <<>> /\ osc' = osc /\ oscLive' = oscLive)
       /\ (/\ ConfigChanged(last') /\ ~osc.set /\ oscLive = 0
           /\ last'.arg.osc # OscUndefined /\ ~PortTruthy(last'.arg.osc))
             => (OscCalls(calls') = <<>> /\ osc' = osc /\ oscLive' = 0)]_vars

\* the port has been set again to the port of the live instance
C4_Witness ==
    /\ ConfigChanged(last)
    /\ last.arg.osc = OscPort(7000)
    /\ OscCalls(calls) = <<>>
    /\ OscIsLive /\ osc.port = 7000 /\ oscLive = 1

\* C5: with an OscLoader live on P, a change to another port Q destroys it, then
\* constructs the one bound to Q, the only live one; a cleared port destroys it and
\* leaves none.
C5_OscReplace ==
    [][(ConfigChanged(last') /\ OscIsLive /\ last'.arg.osc # OscUndefined
            /\ last'.arg.osc # OscPort(osc.port)) =>
          IF PortTruthy(last'.arg.osc)
          THEN /\ OscCalls(calls') = <<Call("osc", osc.port, "destroy", <<>>),
                                       Call("osc", last'.arg.osc.n, "new", <<>>)>>
               /\ osc' = NewOsc(last'.arg.osc.n)
               /\ oscLive' = 1
          ELSE /\ OscCalls(calls') = <<Call("osc", osc.port, "destroy", <<>>)>>
               /\ osc' = NoOsc
               /\ oscLive' = 0]_vars

\* the port has changed from 7000 to 7001
C5_Witness ==
    /\ ConfigChanged(last)
    /\ last.arg.osc = OscPort(7001)
    /\ OscCalls(calls) = <<Call("osc", 7000, "destroy", <<>>), Call("osc", 7001, "new", <<>>)>>
    /\ OscIsLive /\ osc.port = 7001

\* C6: after play(), stop() or toggle(), isPlaying says which one the call was, and
\* the backend gets play() only on a step from Stopped to Playing and stop() only on
\* a step from Playing to Stopped.
C6_OneCallPerTransition ==
    [][last'.op \in {"play", "stop", "toggle"} =>
          /\ isPlaying' = (last'.op = "play" \/ (last'.op = "toggle" /\ ~isPlaying))
          /\ Len(PlayerCalls(calls', {"play"})) = IF ~isPlaying /\ isPlaying' THEN 1 ELSE 0
          /\ Len(PlayerCalls(calls', {"stop"})) = IF isPlaying /\ ~isPlaying' THEN 1 ELSE 0]_vars

\* C7: at most one 'active editor changed' and at most one 'editor content changed'
\* subscription is live; watchActiveShader() while the first is live subscribes to
\* nothing and starts no build.
C7_OneSubscriptionEach ==
    [][/\ subs'.active <= 1
       /\ EditorSubsLive(subs') <= 1
       /\ (last'.op = "watchActiveShader" /\ subs.active > 0)
             => (calls' = <<>> /\ subs' = subs /\ builds' = builds)]_vars

\* watchActiveShader() has been called while both subscriptions were live
C7_Witness ==
    /\ last.op = "watchActiveShader"
    /\ calls = <<>>
    /\ subs.active = 1
    /\ EditorSubsLive(subs) = 1

\* C8: after stopWatching(), and after stop(), no editor subscription is live and
\* both handles are cleared, so no editor event can start a build.
C8_StopWatchingDisposesAll ==
    last.op \in {"stopWatching", "stop"} =>
        /\ subs = NoSubs
        /\ ~Truthy(activeEditorDisposer)
        /\ ~Truthy(editorDisposer)
        /\ \A e \in AllEditors : ~ENABLED EditorStoppedChanging(e, NoInput)

\* stop() has disposed an 'active editor changed' and a content subscription
C8_Witness ==
    /\ last.op = "stop"
    /\ Len(DisposeCalls(calls)) = 2

\* C9: after destroy(), no editor subscription and no OscLoader is live.
C9_DestroyReleasesAll ==
    last.op = "destroy" => (subs = NoSubs /\ oscLive = 0)

\* C10: only play(), stop() and toggle() change isPlaying.
C10_IsPlayingFrame ==
    [][isPlaying' # isPlaying => last'.op \in {"play", "stop", "toggle"}]_vars

\* the backend has been swapped, and a build has completed, while playing
C10_Witness ==
    /\ isPlaying
    /\ player.kind = "Remote" /\ player.isPlaying
    /\ last.op = "validatorSettled" /\ last.result = "dispatched"

(***************************************************************************)
(* The Pass Assembler, under SpecPasses: the one build in flight is        *)
(* builds[1]; on the step that dispatches it, the list createPasses        *)
(* resolved with is the argument of the backend's loadShader.              *)
(***************************************************************************)
VisualDispatch == builds # <<>> /\ ~builds[1].isSound /\ last'.result = "dispatched"

Assembled == PlayerCalls(calls', {"loadShader"})[1].arg[1]

\* the i-th pass specification, the implicit one for an empty list
SpecAt(rcPasses, i) == IF Len(rcPasses) = 0 THEN RcPass(Undef, Undef, Undef) ELSE rcPasses[i]

SpecCount(rcPasses) == IF Len(rcPasses) = 0 THEN 1 ELSE Len(rcPasses)

IsSet(ref) == ref # Undef

\* C11: a build whose loads all succeeded is given max(N,1) passes for N pass
\* specifications, and the i-th pass has the TARGET, FLOAT, WIDTH and HEIGHT of
\* the i-th specification, in whatever order the loads of the passes settled.
C11_PassesInOrder ==
    [][VisualDispatch =>
          LET rcPasses == builds[1].PASSES
          IN  /\ Len(Assembled) = SpecCount(rcPasses)
              /\ \A i \in 1..Len(rcPasses) :
                    /\ Assembled[i].TARGET = rcPasses[i].TARGET
                    /\ Assembled[i].FLOAT = rcPasses[i].FLOAT
                    /\ Assembled[i].WIDTH = rcPasses[i].WIDTH
                    /\ Assembled[i].HEIGHT = rcPasses[i].HEIGHT]_vars

\* two passes that both load files have been assembled, the first one's load
\* settling last
C11_Witness ==
    /\ last.op = "loadFileSettled" /\ last.result = "dispatched"
    /\ Len(lastShader) = 2
    /\ lastShader[1].TARGET = "t1" /\ lastShader[1].WIDTH = "512"
    /\ lastShader[1].vs = "VS_TEXT" /\ lastShader[1].fs = "FS_TEXT"
    /\ lastShader[2].TARGET = "t2" /\ lastShader[2].vs = "VS_TEXT"

\* C12: a last pass specification with vs only and a fragment suffix (.frag, .fs)
\* gives a last pass with vs the loaded file and fs the edited text; one with fs
\* only and a vertex suffix (.vert, .vs) gives fs the loaded file and vs the edited
\* text; in a pass that is not the last one, the side not set stays unset.
C12_LastPassOtherHalf ==
    [][VisualDispatch =>
          LET b == builds[1]
              rcPasses == b.PASSES
              n == Len(rcPasses)
          IN  /\ (n > 0 /\ IsSet(rcPasses[n].vs) /\ ~IsSet(rcPasses[n].fs)
                        /\ b.postfix \in {".frag", ".fs"})
                    => /\ Assembled[n].vs = FileText(b.dirname, rcPasses[n].vs)
                       /\ Assembled[n].fs = b.shader
              /\ (n > 0 /\ IsSet(rcPasses[n].fs) /\ ~IsSet(rcPasses[n].vs)
                        /\ b.postfix \in {".vert", ".vs"})
                    => /\ Assembled[n].fs = FileText(b.dirname, rcPasses[n].fs)
                       /\ Assembled[n].vs = b.shader
              /\ \A i \in 1..(n - 1) :
                    /\ (IsSet(rcPasses[i].vs) /\ ~IsSet(rcPasses[i].fs))
                          => Assembled[i].fs = Undef
                    /\ (IsSet(rcPasses[i].fs) /\ ~IsSet(rcPasses[i].vs))
                          => Assembled[i].vs = Undef]_vars

\* shader.frag has been built with a first pass of fs only and a last pass of vs only
C12_Witness ==
    /\ last.op = "loadFileSettled" /\ last.result = "dispatched"
    /\ activeEditor = "frag"
    /\ Len(lastShader) = 2
    /\ lastShader[1].vs = Undef /\ lastShader[1].fs = "FS_TEXT"
    /\ lastShader[2].vs = "VS_TEXT" /\ lastShader[2].fs = "A"

\* C13: a pass specification with neither vs nor fs gives, at every index, a pass
\* with the edited text on one side and the other side unset: vs for .vert and .vs,
\* fs for .glsl, .frag and .fs.
C13_SuffixSelectsSide ==
    [][VisualDispatch =>
          LET b == builds[1]
          IN  \A i \in 1..SpecCount(b.PASSES) :
                 (~IsSet(SpecAt(b.PASSES, i).vs) /\ ~IsSet(SpecAt(b.PASSES, i).fs)) =>
                    IF b.postfix \in {".vert", ".vs"}
                    THEN Assembled[i].vs = b.shader /\ Assembled[i].fs = Undef
                    ELSE Assembled[i].fs = b.shader /\ Assembled[i].vs = Undef]_vars

\* shader.vs has been built with two pass specifications that set no side
C13_Witness ==
    /\ last.op = "validatorSettled" /\ last.result = "dispatched"
    /\ activeEditor = "vs"
    /\ Len(lastShader) = 2
    /\ \A i \in 1..2 : lastShader[i].vs = "A" /\ lastShader[i].fs = Undef

\* C15: every side a pass specification sets holds the text loaded from its file,
\* for every suffix; the edited text is only on a side the specification left unset.
C15_ExplicitSidesLoaded ==
    [][VisualDispatch =>
          LET b == builds[1]
              rcPasses == b.PASSES
          IN  \A i \in 1..Len(rcPasses) :
                 /\ IsSet(rcPasses[i].vs)
                       => Assembled[i].vs = FileText(b.dirname, rcPasses[i].vs)
                 /\ IsSet(rcPasses[i].fs)
                       => Assembled[i].fs = FileText(b.dirname, rcPasses[i].fs)]_vars

(***************************************************************************)
(* The build pipeline, under Spec.                                         *)
(***************************************************************************)
AssemblyCalls(cs) == SelectSeq(cs, LAMBDA c : c.op \in {"createPasses", "loadFile"})

\* C14: a sound build never calls createPasses and loads no pass file; with a
\* recognized suffix and preprocessing that succeeds, loadSoundShader() has stored
\* the text and given it to the backend, whatever rc.PASSES is.
C14_SoundSkipsAssembly ==
    (last.op = "loadSoundShader" /\ ~last.threw) =>
        /\ AssemblyCalls(calls) = <<>>
        /\ last.result \notin {"noEditor", "badSuffix", "glslifyError"} =>
              /\ last.result = "dispatched"
              /\ Len(PlayerCalls(calls, {"loadSoundShader"})) = 1
              /\ PlayerCalls(calls, {"loadSoundShader"})[1].arg = <<lastSoundShader>>

CallOps(cs) == [i \in 1..Len(cs) |-> cs[i].op]

HasFiles(rcPasses) ==
    \E i \in 1..Len(rcPasses) : IsSet(rcPasses[i].vs) \/ IsSet(rcPasses[i].fs)

\* the loads build b still waits for are one load of one pass
OneLoadLeft(b) ==
    /\ Len(SelectSeq(b.todo, LAMBDA t : t # <<>>)) = 1
    /\ \A i \in 1..Len(b.todo) : Len(b.todo[i]) <= 1

\* C17: the steps of one visual build come in the order settings, snapshot,
\* preprocessing, validation, assembly, dispatch: loadShader() sets the settings,
\* takes the snapshot, preprocesses, and then calls the validator with the
\* preprocessed text, and assembles nothing; createPasses and loadFile are called
\* only once the validator has accepted; the backend's loadShader is called only
\* by the step that settles the last thing a validated build waits for.
C17_StepOrder ==
    [][/\ (last'.op = "loadShader" /\ last'.result = "none" /\ ~last'.threw) =>
             LET text == builds'[Len(builds')].shader
             IN  \/ /\ CallOps(calls') = <<"setFileSettingsByString", "createRc",
                                           "validator">>
                    /\ calls'[3].arg[2] = text
                 \/ /\ CallOps(calls') = <<"setFileSettingsByString", "createRc",
                                           "glslify", "validator">>
                    /\ text = Glslify(calls'[3].arg[1])
                    /\ calls'[4].arg[2] = text
       /\ (AssemblyCalls(calls') # <<>> /\ last'.op # "loadSoundShader") =>
             /\ last'.op \in {"validatorSettled", "loadFileSettled"}
             /\ last'.result \in {"none", "dispatched"}
       /\ PlayerCalls(calls', {"loadShader"}) # <<>> =>
             /\ last'.result = "dispatched"
             /\ \E k \in 1..Len(builds) :
                   /\ builds' = RemoveAt(builds, k)
                   /\ ~builds[k].isSound
                   /\ \/ /\ last'.op = "validatorSettled"
                         /\ builds[k].stage = "validate"
                         /\ ~HasFiles(builds[k].PASSES)
                      \/ /\ last'.op = "loadFileSettled"
                         /\ builds[k].stage = "load"
                         /\ OneLoadLeft(builds[k])]_vars

\* a preprocessed shader.frag has passed the validator, its pass file has been
\* loaded, and the backend has been given both
C17_Witness ==
    /\ last.op = "loadFileSettled" /\ last.result = "dispatched"
    /\ CallOps(calls) = <<"loadShader">>
    /\ lastShader = <<RcPass("buf", "VS_TEXT", "A+")>>

\* passes is what the build b of a fragment file gives, b having at most one pass
\* specification and that one setting no fs
IsResultOf(passes, b) ==
    LET rcPass == SpecAt(b.PASSES, 1)
    IN  /\ Len(passes) = 1
        /\ passes[1].TARGET = rcPass.TARGET
        /\ passes[1].vs = IF IsSet(rcPass.vs) THEN FileText(b.dirname, rcPass.vs) ELSE Undef
        /\ passes[1].fs = b.shader

\* the step completes the visual build k
Completes(k) ==
    /\ k \in 1..Len(builds)
    /\ ~builds[k].isSound
    /\ builds[k].stage \in {"validate", "load"}
    /\ builds' = RemoveAt(builds, k)
    /\ last'.op \in {"validatorSettled", "loadFileSettled"}
    /\ last'.result = "dispatched"

\* C16: a trigger leaves the builds in flight as they are, and the completion of a
\* visual build leaves the others in flight; each completion, in whatever order,
\* makes lastShader and the shader of the backend the result of the build that
\* completes, so after two builds they are the result of the one that completed
\* last.
C16_LastCompletionWins ==
    [][/\ last'.op \in {"loadShader", "loadSoundShader"} =>
             /\ Len(builds') >= Len(builds)
             /\ \A j \in 1..Len(builds) : builds'[j] = builds[j]
       /\ \A k \in 1..Len(builds) :
             Completes(k) =>
                /\ IsResultOf(lastShader', builds[k])
                /\ player'.shader = lastShader'
                /\ PlayerCalls(calls', {"loadShader"})
                      = <<Call("player", player.id, "loadShader", <<lastShader'>>)>>]_vars

\* two visual builds were in flight: the one of the preprocessed text has
\* completed, the one of the plain text still waits for the validator
C16_Witness ==
    /\ last.op = "loadFileSettled" /\ last.result = "dispatched"
    /\ lastShader = <<RcPass("buf", "VS_TEXT", "A+")>>
    /\ player.shader = lastShader
    /\ Len(builds) = 1
    /\ ~builds[1].isSound /\ builds[1].stage = "validate" /\ builds[1].shader = "A"

(***************************************************************************)
(* The control source and the backends, under SpecRace.                    *)
(***************************************************************************)
\* C18: a message of the control source is given, address and arguments, to the
\* live backend by one setOsc call, and nothing else happens; a reload signal gives
\* the live backend one loadShader call with lastShader, and reads no editor, runs
\* no validator and starts no build; no setOsc and no loadShader goes to a backend
\* that has been replaced.
C18_OscToLiveBackend ==
    [][/\ last'.op = "onOsc" =>
             /\ calls' = <<Call("player", player.id, "setOsc",
                                <<last'.arg.address, last'.arg.args>>)>>
             /\ player' = player
             /\ builds' = builds
       /\ last'.op = "oscReload" =>
             /\ calls' = <<Call("player", player.id, "loadShader", <<lastShader>>)>>
             /\ player'.id = player.id
             /\ player'.shader = lastShader
             /\ lastShader' = lastShader
             /\ builds' = builds
       /\ \A i \in 1..Len(calls') :
             (calls'[i].obj = "player" /\ calls'[i].op \in {"setOsc", "loadShader"})
                => calls'[i].id = player'.id]_vars

\* a reload signal has arrived after a build and a backend swap
C18_Witness ==
    /\ last.op = "oscReload"
    /\ player.kind = "Remote"
    /\ lastShader # INITIAL_SHADER
    /\ calls = <<Call("player", player.id, "loadShader", <<lastShader>>)>>

\* C19: the step that completes a visual build gives its passes to the backend that
\* is live at that step, also when the backend has been swapped since the build was
\* started, and to no other; and between handlers the passes last given to the live
\* backend, at its construction or by loadShader, are lastShader.
C19_BuildsReachLiveBackend ==
    [][/\ \A k \in 1..Len(builds) :
             Completes(k) =>
                /\ player' = [player EXCEPT !.shader = lastShader']
                /\ PlayerCalls(calls', {"loadShader"})
                      = <<Call("player", player.id, "loadShader", <<lastShader'>>)>>
       /\ player'.shader = lastShader']_vars

\* a build of the preprocessed text, started on the first backend, has completed
\* on the third, a local one
C19_Witness ==
    /\ last.op = "loadFileSettled" /\ last.result = "dispatched"
    /\ player.id = 2 /\ player.kind = "Local"
    /\ player.shader = <<RcPass("buf", "VS_TEXT", "A+")>>
    /\ calls = <<Call("player", 2, "loadShader", <<lastShader>>)>>

(***************************************************************************)
(* playSound(), under SpecSound.                                           *)
(***************************************************************************)
\* the builds of bs whose completion plays the sound
ToPlay(bs) == Len(SelectSeq(bs, LAMBDA b : b.thenPlay))

\* C20: every playSound() leads to one playSound of the backend, made by the step
\* that completes the sound build it started (after the loadSoundShader of that
\* step, if there is one) and on the backend live at that step: each step makes as
\* many of these calls as it completes such builds, playSound() itself counting as
\* one started.  When the build failed or did nothing, that step leaves
\* lastSoundShader as it was and gives the backend no loadSoundShader.
C20_PlaySoundAfterBuild ==
    [][LET plays == PlayerCalls(calls', {"playSound"})
           started == IF last'.op = "playSound" THEN 1 ELSE 0
       IN  /\ Len(plays) = ToPlay(builds) + started - ToPlay(builds')
           /\ \A i \in 1..Len(plays) : plays[i].id = player'.id
           /\ plays # <<>> => calls'[Len(calls')] = plays[Len(plays)]
           /\ (plays # <<>> /\ last'.result # "dispatched") =>
                 /\ lastSoundShader' = lastSoundShader
                 /\ PlayerCalls(calls', {"loadSoundShader"}) = <<>>]_vars

====
